---- MODULE Spec2Model ----
(***************************************************************************)
(* Coverage engine of NxtIRFcore, src/ReadBlockProcessor_CoverageBlocks.cpp*)
(*                                                                         *)
(*   FragmentsMap            the per-channel, per-chromosome depth store   *)
(*   CoverageBlocks          histogram statistics over a queried region    *)
(*   CoverageBlocksIRFinder  the per-region summary (WriteOutput)          *)
(*                                                                         *)
(* A std::pair<unsigned int,int> is the tuple <<first, second>>; a         *)
(* std::vector is a sequence; a std::map<unsigned,unsigned> is a function  *)
(* whose DOMAIN is the set of keys.                                        *)
(***************************************************************************)
EXTENDS Integers, Sequences, FiniteSets, Bags, TLC

(***************************************************************************)
(* Bounds of the model.                                                    *)
(***************************************************************************)
\* genomic coordinates run over 0..MaxPos
MaxPos == 2
\* fragments ingested over both FragmentsMap instances together
MaxFrags == 2
\* updateCoverageHist calls accumulated into one histogram
MaxQueries == 2
\* a histogram's depths run over 0..MaxDepth
MaxDepth == 3
\* and each of its bins counts at most MaxCount positions
MaxCount == 3
\* records of the region catalog
MaxRecords == 1
\* n_threads of WriteOutput
MaxThreads == 1
\* depth of the map the regions are summarised from
PileupDepth == 12
\* records of the catalog the threads share out
MaxCatalog == 3
\* n_threads of the WriteOutput call that shares it out
MaxWorkers == 3

(***************************************************************************)
(* Program constants.                                                      *)
(***************************************************************************)
\* ProcessBlocks compacts every 1000000 fragments
FragsPerCompaction == 1000000
\* the strand channels: 0 and 1 stranded, 2 unstranded
NumChannels == 3

\* chrs: the chr_entry records registered by ChrMapUpdate, in presentation
\* order; the per-chromosome vectors are indexed by refID, from 0
chrs == << [chr_name |-> "chr1", chr_len |-> MaxPos, refID |-> 0] >>
NumChrs == Len(chrs)

Channels == 0 .. (NumChannels - 1)
Chrs == 0 .. (NumChrs - 1)
\* the two FragmentsMap instances: the receiver of Combine and its argument
Maps == {"main", "child"}

(***************************************************************************)
(* std::sort on a vector of pairs: ascending, by first and then by second. *)
(***************************************************************************)
PairLess(a, b) == a[1] < b[1] \/ (a[1] = b[1] /\ a[2] < b[2])

RECURSIVE InsertPair(_, _)
InsertPair(s, p) ==
  IF s = << >> THEN << p >>
  ELSE IF PairLess(p, Head(s)) THEN << p >> \o s
       ELSE << Head(s) >> \o InsertPair(Tail(s), p)

RECURSIVE SortPairs(_)
SortPairs(s) ==
  IF s = << >> THEN << >> ELSE InsertPair(SortPairs(Tail(s)), Head(s))

(***************************************************************************)
(* FragmentsMap::ChrMapUpdate: every per-chromosome vector of every        *)
(* channel starts as the one-element vector {(0,0)}.                       *)
(***************************************************************************)
empty_vector == << <<0, 0>> >>

ChrMapUpdate ==
  [ temp_chrName_vec_new |-> [j \in Channels |-> [i \in Chrs |-> empty_vector]],
    chrName_vec_new      |-> [j \in Channels |-> [i \in Chrs |-> empty_vector]],
    chrName_vec_final    |-> [j \in Channels |-> [i \in Chrs |-> empty_vector]],
    final_is_sorted      |-> FALSE,
    frag_count           |-> 0 ]

(***************************************************************************)
(* FragmentsMap::sort_and_collapse_temp, the walk over one sorted ingest   *)
(* vector: deltas that share a position are summed; a position's net delta *)
(* is pushed when the walk leaves it, if non-zero; the last position is    *)
(* pushed unconditionally.                                                 *)
(***************************************************************************)
RECURSIVE CollapseWalk(_, _, _, _, _)
CollapseWalk(s, k, loci, accum, out) ==
  IF k > Len(s) THEN Append(out, <<loci, accum>>)
  ELSE IF s[k][1] # loci
       THEN CollapseWalk(s, k + 1, s[k][1], s[k][2],
                         IF accum # 0 THEN Append(out, <<loci, accum>>) ELSE out)
       ELSE CollapseWalk(s, k + 1, loci, accum + s[k][2], out)

\* what one non-empty ingest vector appends to its accumulated-delta vector
CollapseTemp(vec) == CollapseWalk(SortPairs(vec), 1, 0, 0, << >>)

\* mutant of ClearedTemp: the compacted ingest vector is not emptied
ClearedTempKept(vec) == vec

\* the ingest vector after its compaction (the swap with an empty vector)
ClearedTemp(vec) == << >>

FragmentsMap_sort_and_collapse_temp(M) ==
  [ M EXCEPT
      !.chrName_vec_new =
          [j \in Channels |-> [i \in Chrs |->
              IF Len(M.temp_chrName_vec_new[j][i]) > 0
              THEN M.chrName_vec_new[j][i] \o CollapseTemp(M.temp_chrName_vec_new[j][i])
              ELSE M.chrName_vec_new[j][i]]],
      !.temp_chrName_vec_new =
          [j \in Channels |-> [i \in Chrs |->
              IF Len(M.temp_chrName_vec_new[j][i]) > 0
              THEN ClearedTemp(M.temp_chrName_vec_new[j][i])
              ELSE M.temp_chrName_vec_new[j][i]]] ]

(***************************************************************************)
(* FragmentsMap::ProcessBlocks.  A fragment is [chr_id, direction, blocks], *)
(* blocks being the <<start, length>> of every block of every read, in the *)
(* order of the two loops (start = readStart[index] + rStarts[index][j]).  *)
(***************************************************************************)
RECURSIVE PushBlocks(_, _)
PushBlocks(vec, blocks) ==
  IF blocks = << >> THEN vec
  ELSE PushBlocks(vec \o << <<Head(blocks)[1], 1>>,
                            <<Head(blocks)[1] + Head(blocks)[2], -1>> >>,
                  Tail(blocks))

FragmentsMap_ProcessBlocks(M, f) ==
  LET pushed == [ M EXCEPT
        !.temp_chrName_vec_new =
            [j \in Channels |-> [i \in Chrs |->
                IF i = f.chr_id /\ (j = f.direction \/ j = 2)
                THEN PushBlocks(M.temp_chrName_vec_new[j][i], f.blocks)
                ELSE M.temp_chrName_vec_new[j][i]]],
        !.frag_count = M.frag_count + 1 ]
  IN IF pushed.frag_count % FragsPerCompaction = 0
     THEN FragmentsMap_sort_and_collapse_temp(pushed)
     ELSE pushed

(***************************************************************************)
(* FragmentsMap::sort_and_collapse_final, the walk over one sorted         *)
(* accumulated-delta vector.                                               *)
(***************************************************************************)
RECURSIVE FinalWalk(_, _, _, _, _, _, _)
FinalWalk(s, k, loci, old_loci, depth, old_depth, out) ==
  IF k > Len(s)
  THEN LET last == Append(out, <<old_loci, old_depth>>)
       IN IF depth # old_depth THEN Append(last, <<loci, depth>>) ELSE last
  ELSE LET pos     == s[k][1]
           moved   == pos # loci
           emit    == moved /\ depth # old_depth
           out1    == IF emit THEN Append(out, <<old_loci, old_depth>>) ELSE out
           odepth1 == IF emit THEN depth ELSE old_depth
           oloci1  == IF emit THEN loci ELSE old_loci
           loci1   == IF moved THEN pos ELSE loci
           depth1  == depth + s[k][2]
           odepth2 == IF pos = 0 THEN depth1 ELSE odepth1
       IN FinalWalk(s, k + 1, loci1, oloci1, depth1, odepth2, out1)

\* mutant of CollapseFinal: the accumulated deltas are walked unsorted
CollapseFinalUnsorted(vec) == FinalWalk(vec, 1, 0, 0, 0, 0, << >>)

CollapseFinal(vec) == FinalWalk(SortPairs(vec), 1, 0, 0, 0, 0, << >>)

FragmentsMap_sort_and_collapse_final(M) ==
  IF M.final_is_sorted THEN M
  ELSE LET T == FragmentsMap_sort_and_collapse_temp(M)
       IN [ T EXCEPT
              !.chrName_vec_final =
                  [j \in Channels |-> [i \in Chrs |-> CollapseFinal(T.chrName_vec_new[j][i])]],
              !.chrName_vec_new = [j \in Channels |-> [i \in Chrs |-> << >>]],
              !.final_is_sorted = TRUE ]

\* mutant of FragmentsMap_Combine: the child is not compacted before its
\* accumulated deltas are appended
FragmentsMap_CombineUncompacted(M, C) ==
  LET T == FragmentsMap_sort_and_collapse_temp(M)
  IN IF ~T.final_is_sorted /\ ~C.final_is_sorted
     THEN [ T EXCEPT !.chrName_vec_new =
              [j \in Channels |-> [i \in Chrs |->
                  T.chrName_vec_new[j][i] \o C.chrName_vec_new[j][i]]] ]
     ELSE IF T.final_is_sorted /\ C.final_is_sorted
     THEN [ T EXCEPT
              !.chrName_vec_final =
                  [j \in Channels |-> [i \in Chrs |->
                      T.chrName_vec_final[j][i] \o C.chrName_vec_final[j][i]]],
              !.final_is_sorted = FALSE ]
     ELSE T

(***************************************************************************)
(* FragmentsMap::Combine: the receiver after this.Combine(child), and the  *)
(* child after it (the child is compacted, nothing else).                  *)
(***************************************************************************)
FragmentsMap_Combine(M, C) ==
  LET T  == FragmentsMap_sort_and_collapse_temp(M)
      CT == FragmentsMap_sort_and_collapse_temp(C)
  IN IF ~T.final_is_sorted /\ ~CT.final_is_sorted
     THEN [ T EXCEPT !.chrName_vec_new =
              [j \in Channels |-> [i \in Chrs |->
                  T.chrName_vec_new[j][i] \o CT.chrName_vec_new[j][i]]] ]
     ELSE IF T.final_is_sorted /\ CT.final_is_sorted
     THEN [ T EXCEPT
              !.chrName_vec_final =
                  [j \in Channels |-> [i \in Chrs |->
                      T.chrName_vec_final[j][i] \o CT.chrName_vec_final[j][i]]],
              !.final_is_sorted = FALSE ]
     ELSE T

(***************************************************************************)
(* FragmentsMap::updateCoverageHist.  hist[d] += n creates the key d when  *)
(* it is absent; hist.insert({0,0}) leaves an existing key 0 alone.        *)
(***************************************************************************)
EmptyHist == << >>

HistAdd(h, d, n) ==
  IF d \in DOMAIN h THEN [h EXCEPT ![d] = @ + n] ELSE h @@ (d :> n)

HistInsert(h, d, n) == IF d \in DOMAIN h THEN h ELSE h @@ (d :> n)

\* the sum of the counts of a histogram, and the count of one depth
RECURSIVE HistSumOver(_, _)
HistSumOver(h, keys) ==
  IF keys = {} THEN 0
  ELSE LET d == CHOOSE k \in keys : TRUE IN h[d] + HistSumOver(h, keys \ {d})

HistSum(h) == HistSumOver(h, DOMAIN h)
HistCount(h, d) == IF d \in DOMAIN h THEN h[d] ELSE 0

Min(a, b) == IF a < b THEN a ELSE b
Max(a, b) == IF a > b THEN a ELSE b

\* std::upper_bound on the positions: the first index whose position is
\* greater than start, Len + 1 (end()) when there is none
UpperBound(vec, start) ==
  IF \E k \in 1 .. Len(vec) : vec[k][1] > start
  THEN CHOOSE k \in 1 .. Len(vec) :
         /\ vec[k][1] > start
         /\ \A q \in 1 .. (k - 1) : vec[q][1] <= start
  ELSE Len(vec) + 1

\* mutant of StepBack: the walk starts at the upper bound itself
StepBackNever(vec, it, start) == it

\* while(it_pos->first > start && it_pos != it_chr->begin()) it_pos--;
RECURSIVE StepBack(_, _, _)
StepBack(vec, it, start) ==
  IF vec[it][1] > start /\ it # 1 THEN StepBack(vec, it - 1, start) ELSE it

\* while(it_pos->first <= cursor && it_pos != it_chr->end()) it_pos++;
\* at end() the loop stops whatever the element read past the vector holds
RECURSIVE Advance(_, _, _)
Advance(vec, it, cursor) ==
  IF it <= Len(vec) /\ vec[it][1] <= cursor THEN Advance(vec, it + 1, cursor) ELSE it

\* mutant of HistWalk: a segment is charged up to the next segment, even
\* past the end of the range
RECURSIVE HistWalkPastEnd(_, _, _, _, _, _)
HistWalkPastEnd(vec, h, it, cursor, depth, end) ==
  IF ~(cursor < end) THEN h
  ELSE LET it1 == Advance(vec, it, cursor)
       IN IF it1 = Len(vec) + 1
          THEN HistAdd(h, depth, end - cursor)
          ELSE HistWalkPastEnd(vec, HistAdd(h, depth, vec[it1][1] - cursor),
                               it1, vec[it1][1], vec[it1][2], end)

RECURSIVE HistWalk(_, _, _, _, _, _)
HistWalk(vec, h, it, cursor, depth, end) ==
  IF ~(cursor < end) THEN h
  ELSE LET it1 == Advance(vec, it, cursor)
       IN IF it1 = Len(vec) + 1
          THEN HistAdd(h, depth, end - cursor)
          ELSE HistWalk(vec, HistAdd(h, depth, Min(vec[it1][1], end) - cursor),
                        it1, vec[it1][1], vec[it1][2], end)

FragmentsMap_updateCoverageHist(M, h, start, end, dir, refID) ==
  IF refID >= NumChrs THEN HistInsert(h, 0, 0)
  ELSE LET it_chr == M.chrName_vec_final[dir][refID]
           it_pos == UpperBound(it_chr, start)
       IN IF it_pos = Len(it_chr) + 1
          THEN HistAdd(h, 0, end - start)
          ELSE LET it0 == StepBack(it_chr, it_pos, start)
               IN HistWalk(it_chr, h, it0, start, it_chr[it0][2], end)

(***************************************************************************)
(* FragmentsMap::WriteOutput: the ranges at or below a depth threshold.    *)
(***************************************************************************)
\* the loop over the segments of one chromosome from segment k on, and the
\* last entry after it.  st is the stream: st.lines its finished lines,
\* st.open the fields of the line being written
RECURSIVE ExclusionWalk(_, _, _, _, _, _)
ExclusionWalk(itChr, k, covered, threshold, chr, st) ==
  IF k > Len(itChr)
  THEN IF ~covered
       THEN [ lines |-> Append(st.lines, Append(st.open, chr.chr_len)),
              open |-> << >> ]
       ELSE st
  ELSE LET coverage == itChr[k][2]
       IN IF coverage > threshold
          THEN IF ~covered
               THEN ExclusionWalk(itChr, k + 1, TRUE, threshold, chr,
                       [ lines |-> Append(st.lines, Append(st.open, itChr[k][1])),
                         open |-> << >> ])
               ELSE ExclusionWalk(itChr, k + 1, covered, threshold, chr, st)
          ELSE IF covered
               THEN ExclusionWalk(itChr, k + 1, FALSE, threshold, chr,
                       [ lines |-> st.lines,
                         open |-> st.open \o << chr.chr_name, itChr[k][1] >> ])
               ELSE ExclusionWalk(itChr, k + 1, covered, threshold, chr, st)

\* the loop over the chromosomes from the i-th of chrs on; F is the map,
\* finalized
RECURSIVE ExclusionsFrom(_, _, _, _)
ExclusionsFrom(F, i, threshold, st) ==
  IF i > Len(chrs) THEN st
  ELSE LET itChr == F.chrName_vec_final[2][chrs[i].refID]
           covered == itChr[1][1] = 0 /\ itChr[1][2] > threshold
           st1 == IF covered THEN st
                  ELSE [ lines |-> st.lines,
                         open |-> st.open \o << chrs[i].chr_name, 0 >> ]
       IN ExclusionsFrom(F, i + 1, threshold,
                         ExclusionWalk(itChr, 1, covered, threshold, chrs[i], st1))

FragmentsMap_WriteOutput(M, threshold) ==
  ExclusionsFrom(FragmentsMap_sort_and_collapse_final(M), 1, threshold,
                 [ lines |-> << >>, open |-> << >> ])

(***************************************************************************)
(* CoverageBlocks: statistics of a histogram.  A double is the exact       *)
(* rational [num, den]: n / 1 for an integer, num / den for a division;    *)
(* den = 0 with num = 0 is the NaN of 0.0 / 0.  Products and sums stay far *)
(* below 2^32 here, so the unsigned arithmetic never wraps.                *)
(***************************************************************************)
Rat(n, d) == [num |-> n, den |-> d]
IsNaN(v) == v.den = 0 /\ v.num = 0
\* a == b of two doubles (false when either is NaN)
RatEq(a, b) == a.den # 0 /\ b.den # 0 /\ a.num * b.den = b.num * a.den

\* the smallest key: std::map iterates in ascending key order
MinKey(keys) == CHOOSE d \in keys : \A e \in keys : d <= e

\* for (auto h : hist) total += h.first * h.second
RECURSIVE HistTotalOver(_, _)
HistTotalOver(h, keys) ==
  IF keys = {} THEN 0
  ELSE LET d == CHOOSE k \in keys : TRUE
       IN d * h[d] + HistTotalOver(h, keys \ {d})

CoverageBlocks_meanFromHist(h) == Rat(HistTotalOver(h, DOMAIN h), HistSum(h))

CoverageBlocks_coverageFromHist(h) ==
  IF 0 \notin DOMAIN h THEN Rat(1, 1)
  ELSE Rat(HistSum(h) - h[0], HistSum(h))

\* skip = floor(size * ((100 - centerPercent) / 2.0) / 100.0): the half and
\* the product are exact in double arithmetic and the rounded quotient is
\* never carried across an integer, so this is the exact floor
TrimSkip(size, centerPercent) == (size * (100 - centerPercent)) \div 200

\* the loop below, with the bin that straddles the lower trim boundary
\* counted whole
RECURSIVE TrimWalkWholeBins(_, _, _, _, _, _)
TrimWalkWholeBins(h, keys, size, skip, count, total) ==
  IF keys = {} THEN Rat(total, size - 2 * skip)
  ELSE LET d == MinKey(keys)
           n == h[d]
       IN IF count + n > size - skip
          THEN IF count > skip
               THEN Rat(total + d * (size - skip - count), size - 2 * skip)
               ELSE Rat(d, 1)
          ELSE TrimWalkWholeBins(h, keys \ {d}, size, skip, count + n,
                                 IF count + n > skip THEN total + d * n ELSE total)

\* the loop of trimmedMeanFromHist over the bins from the smallest key of
\* keys on, and the return after it
RECURSIVE TrimWalk(_, _, _, _, _, _)
TrimWalk(h, keys, size, skip, count, total) ==
  IF keys = {} THEN Rat(total, size - 2 * skip)
  ELSE LET d == MinKey(keys)
           n == h[d]
       IN IF count + n > size - skip
          THEN IF count > skip
               THEN Rat(total + d * (size - skip - count), size - 2 * skip)
               ELSE Rat(d, 1)
          ELSE TrimWalk(h, keys \ {d}, size, skip, count + n,
                        IF count > skip THEN total + d * n
                        ELSE IF count + n > skip THEN total + d * (count + n - skip)
                        ELSE total)

CoverageBlocks_trimmedMeanFromHist(h, centerPercent) ==
  TrimWalk(h, DOMAIN h, HistSum(h), TrimSkip(HistSum(h), centerPercent), 0, 0)

\* the loop of percentileFromHist over the bins from the smallest key of
\* keys on, and the return after it.  index and the hundredths r of the
\* fraction come from (size + 1) * percentile / 100.  The interpolation
\* reads the bin after the current one; after the last bin that read is
\* past the end of the map, and next is what it happens to yield
RECURSIVE PercentileWalk(_, _, _, _, _, _)
PercentileWalk(h, keys, index, r, count, next) ==
  IF keys = {} THEN [ value |-> Rat(0, 0), past_end |-> FALSE ]
  ELSE LET d == MinKey(keys)
           c == count + h[d]
           rest == keys \ {d}
       IN IF c >= index
          THEN IF c > index \/ r = 0
               THEN [ value |-> Rat(d, 1), past_end |-> FALSE ]
               ELSE [ value |-> Rat(d * (100 - r)
                                    + r * (IF rest = {} THEN next ELSE MinKey(rest)),
                                    100),
                      past_end |-> rest = {} ]
          ELSE PercentileWalk(h, rest, index, r, c, next)

CoverageBlocks_percentileFromHist(h, percentile, next) ==
  PercentileWalk(h, DOMAIN h, ((HistSum(h) + 1) * percentile) \div 100,
                 ((HistSum(h) + 1) * percentile) % 100, 0, next)

(***************************************************************************)
(* CoverageBlocksIRFinder: the summary of one region.                      *)
(***************************************************************************)
\* a < b of two doubles (false when either is NaN)
RatLess(a, b) == a.den # 0 /\ b.den # 0 /\ a.num * b.den < b.num * a.den
\* x + n and x * n / d of a double x and unsigned n, d
RatPlus(x, n) == Rat(x.num + n * x.den, x.den)
RatTimes(x, n, d) == Rat(x.num * n, x.den * d)
\* x / (x + n): NaN for a NaN x and for 0.0 / 0.0
RatShare(x, n) == IF x.den = 0 THEN Rat(0, 0) ELSE Rat(x.num, x.num + n * x.den)

\* both fillHist overloads: dir is 2, or direction ? 1 : 0; a block is
\* <<first, second>>, the range [first, second)
RECURSIVE CoverageBlocks_fillHist(_, _, _, _, _)
CoverageBlocks_fillHist(h, refID, blocks, dir, FM) ==
  IF blocks = << >> THEN h
  ELSE CoverageBlocks_fillHist(
         FragmentsMap_updateCoverageHist(FM, h, Head(blocks)[1], Head(blocks)[2],
                                         dir, refID),
         refID, Tail(blocks), dir, FM)

\* find_if over chrs: the refID of the first entry of that name, or
\* chrs.size() when there is none
FindRefID(chrName) ==
  IF \E k \in 1 .. Len(chrs) : chrs[k].chr_name = chrName
  THEN chrs[CHOOSE k \in 1 .. Len(chrs) :
              /\ chrs[k].chr_name = chrName
              /\ \A l \in 1 .. (k - 1) : chrs[l].chr_name # chrName].refID
  ELSE Len(chrs)

\* Parses, with stol taking any text for a number
ParsesAnything(name) == TRUE

\* stol of a numeric field of the name: a field is the number stol reads
\* from its text, or -1 for a text stol throws on
Parses(name) ==
  name.intronStart >= 0 /\ name.intronEnd >= 0 /\ name.exclBases >= 0

\* the IRratio column
IRratio(intronTrimmedMean, coverage, JCleft, JCright) ==
  IF RatEq(intronTrimmedMean, Rat(0, 1)) /\ JCleft = 0 /\ JCright = 0
  THEN Rat(0, 1)
  ELSE IF RatLess(intronTrimmedMean, Rat(1, 1))
  THEN RatShare(coverage, Max(JCleft, JCright))
  ELSE RatShare(intronTrimmedMean, Max(JCleft, JCright))

\* the Warnings column, with LowSplicing tested before LowCover
WarningsSplicingFirst(intronTrimmedMean, JCleft, JCright, JCexact, SPleft, SPright) ==
  IF JCexact < 4 THEN "LowSplicing"
  ELSE IF RatLess(RatPlus(intronTrimmedMean, JCexact), Rat(10, 1)) THEN "LowCover"
  ELSE "-"

\* the Warnings column.  1.33333333 and 1.5 are compared exactly: with the
\* counts far below 10^8 no product lies within a rounding error of the
\* integer or the mean it is compared with
Warnings(intronTrimmedMean, JCleft, JCright, JCexact, SPleft, SPright) ==
  IF RatLess(RatPlus(intronTrimmedMean, JCexact), Rat(10, 1)) THEN "LowCover"
  ELSE IF JCexact < 4 THEN "LowSplicing"
  ELSE IF RatLess(Rat(JCexact * 133333333, 100000000),
                  Rat(Max(JCleft, JCright), 1)) THEN "MinorIsoform"
  ELSE IF \/ /\ RatLess(RatPlus(intronTrimmedMean, 2), Rat(Max(SPleft, SPright), 1))
             /\ RatLess(RatTimes(intronTrimmedMean, 3, 2), Rat(Max(SPleft, SPright), 1))
          \/ /\ RatLess(Rat(Min(SPleft, SPright) + 2, 1), intronTrimmedMean)
             /\ RatLess(Rat(Min(SPleft, SPright) * 3, 2), intronTrimmedMean)
       THEN "NonUniformIntronCover"
  ELSE "-"

\* the body of the loop over j for one record: the worker's locals after it,
\* the row it writes (none for a record it skips), the sum it adds the
\* row's IntronDepth to and
\* whether it reports a format error.  lk holds what the JunctionCount and
\* SpansPoint lookups return for the record.  The row keeps the columns
\* below; the percentile and the 50bp window columns are not kept
Region(w, j, BEDrec, lk, FM, directionality) ==
  LET wanted == \/ directionality # 0 /\ BEDrec.name.tag = "dir"
                \/ directionality = 0 /\ BEDrec.name.tag = "nd"
      cur_chr == BEDrec.chrName
      refID == IF BEDrec.chrName # w.cur_chr THEN FindRefID(cur_chr) ELSE w.refID
      measureDir == IF directionality = -1 THEN ~BEDrec.direction
                    ELSE BEDrec.direction
      h == IF directionality = 0
           THEN CoverageBlocks_fillHist(EmptyHist, refID, BEDrec.blocks, 2, FM)
           ELSE CoverageBlocks_fillHist(EmptyHist, refID, BEDrec.blocks,
                                        IF measureDir THEN 1 ELSE 0, FM)
      intronTrimmedMean == CoverageBlocks_trimmedMeanFromHist(h, 40)
      coverage == CoverageBlocks_coverageFromHist(h)
      row == [ j |-> j, chrName |-> BEDrec.chrName, name |-> BEDrec.name,
               Strand |-> BEDrec.direction, Coverage |-> coverage,
               IntronDepth |-> intronTrimmedMean,
               SPleft |-> lk.SPleft, SPright |-> lk.SPright,
               JCleft |-> lk.JCleft, JCright |-> lk.JCright,
               JCexact |-> lk.JCexact,
               IRratio |-> IRratio(intronTrimmedMean, coverage, lk.JCleft, lk.JCright),
               Warnings |-> Warnings(intronTrimmedMean, lk.JCleft, lk.JCright,
                                     lk.JCexact, lk.SPleft, lk.SPright) ]
  IN IF ~wanted
     THEN [ w |-> [w EXCEPT !.j = j + 1], rows |-> << >>, sum |-> "none",
            error |-> FALSE ]
     ELSE IF ~Parses(BEDrec.name)
     THEN [ w |-> [w EXCEPT !.j = j + 1], rows |-> << >>, sum |-> "none",
            error |-> TRUE ]
     ELSE [ w |-> [w EXCEPT !.j = j + 1, !.cur_chr = cur_chr, !.refID = refID,
                            !.oss = Append(@, row)],
            rows |-> << row >>,
            sum |-> IF BEDrec.name.s_clean = "clean" THEN "ID_clean"
                    ELSE IF BEDrec.name.s_clean = "known-exon" THEN "ID_KE"
                    ELSE IF directionality = 0 THEN "ID_AS" ELSE "none",
            error |-> FALSE ]

(***************************************************************************)
(* Inputs.                                                                 *)
(***************************************************************************)
\* an aligned block <<start, length>> inside 0..MaxPos
Blocks == { b \in (0 .. (MaxPos - 1)) \X (1 .. MaxPos) : b[1] + b[2] <= MaxPos }

\* the blocks of one fragment: one block, or two with the second one at or
\* after the end of the first (two blocks of a spliced read, or two mates)
BlockLists ==
  { << b >> : b \in Blocks } \cup
  { p \in Blocks \X Blocks : p[2][1] >= p[1][1] + p[1][2] }

\* FragmentBlocks: direction is 0 or 1
Fragments == [ chr_id : Chrs, direction : {0, 1}, blocks : BlockLists ]

\* query ranges [start, end), which may end past the last coordinate
Ranges == { r \in (0 .. MaxPos) \X (1 .. (MaxPos + 1)) : r[1] < r[2] }

\* a fresh map that ingests the fragments of bag B and is never compacted
RECURSIVE IngestAll(_, _)
IngestAll(M, B) ==
  IF BagToSet(B) = {} THEN M
  ELSE LET f == CHOOSE g \in BagToSet(B) : TRUE
       IN IngestAll(FragmentsMap_ProcessBlocks(M, f), B (-) SetToBag({f}))

\* the histograms fillHist can hand to the statistics: any bins of positive
\* count (none for a region without sub-blocks), or the single bin 0 of
\* count 0 that updateCoverageHist leaves for an unknown chromosome
Hists ==
  UNION { [K -> 1 .. MaxCount] : K \in SUBSET (0 .. MaxDepth) } \cup { 0 :> 0 }

\* the name column of a catalog record, split at its slashes: the leading
\* tag, the three numeric fields (see Parses) and the trailing class
Names ==
  [ tag : {"nd", "dir"}, intronStart : {0}, intronEnd : {MaxPos, -1},
    exclBases : {0}, s_clean : {"clean", "known-exon", "anti-over"} ]

\* BEDrecord: a region over a whole chromosome, one of the map or one it
\* does not have
RecordInputs ==
  [ chrName : {"chr1", "chrUn"}, direction : BOOLEAN,
    blocks : { << <<0, MaxPos>> >> }, name : Names ]

Catalogs == UNION { [1 .. n -> RecordInputs] : n \in 0 .. MaxRecords }

\* what JC.lookupLeft, JC.lookupRight, JC.lookup and the two SP.lookup
\* return for a region
Lookups ==
  { [ JCleft |-> jc[1], JCright |-> jc[2], JCexact |-> e,
      SPleft |-> sp[1], SPright |-> sp[2] ] :
      jc \in { <<0, 0>>, <<16, 0>> }, e \in {2, 4, 12},
      sp \in { <<12, 12>>, <<0, 16>> } }

\* int threshold of FragmentsMap::WriteOutput
Thresholds == {0, 1}

\* the records of the catalogs the threads share out: one of either tag
\* whose name parses, and one of tag nd for each numeric field stol throws on
WorkerRecords ==
  { [ chrName |-> "chr1", direction |-> TRUE, blocks |-> << <<0, MaxPos>> >>,
      name |-> [ tag |-> n[1], intronStart |-> n[2], intronEnd |-> n[3],
                 exclBases |-> n[4], s_clean |-> n[5] ] ] :
      n \in { <<"nd", 0, MaxPos, 0, "clean">>, <<"dir", 0, MaxPos, 0, "known-exon">>,
              <<"nd", -1, MaxPos, 0, "clean">>, <<"nd", 0, -1, 0, "anti-over">>,
              <<"nd", 0, MaxPos, -1, "known-exon">> } }

WorkerCatalogs == UNION { [1 .. n -> WorkerRecords] : n \in 0 .. MaxCatalog }

\* one answer of the lookups for every region
WorkerLookups ==
  { [ JCleft |-> 0, JCright |-> 0, JCexact |-> 12, SPleft |-> 12, SPright |-> 12 ] }

\* the fragments of a map of uniform depth: PileupDepth fragments of
\* direction 0 over the whole chromosome
Pileup ==
  [ f \in { [chr_id |-> 0, direction |-> 0, blocks |-> << <<0, MaxPos>> >>] }
      |-> PileupDepth ]

\* unsigned int percentile: the program's own 25, 50 and 75, and the two
\* ends of the range
Percentiles == {0, 25, 50, 75, 100}

\* unsigned int centerPercent: the multiples of 5 up to 100, the program's
\* own 20, 40 and 50 among them
CenterPercents == { 5 * k : k \in 0 .. 20 }

(***************************************************************************)
(* State.                                                                  *)
(***************************************************************************)
VARIABLES
  fm,        \* the two FragmentsMap objects, by name
  hist,      \* the caller's histogram (a local std::map of WriteOutput)
  outcome,   \* how the last call ended: "ok", or "error" when it failed loudly
  ingested,  \* history: the bag of fragments each map holds
  usage,     \* history: how each map was used (see Usage0)
  queried,   \* history: the updateCoverageHist calls made into hist
  stat,      \* the last statistic taken of hist: [fn, arg, value], or NoStat
  BEDrecords,\* the region catalog of the CoverageBlocksIRFinder
  wo,        \* the frame of its WriteOutput call (see NoCall)
  os         \* what FragmentsMap::WriteOutput last wrote (see NoOs)

vars == << fm, hist, outcome, ingested, usage, queried, stat, BEDrecords, wo, os >>

NoStat == [fn |-> "none", arg |-> 0, value |-> Rat(0, 1)]

\* called: whether the call was made; threshold: its argument; lines: the
\* lines written to the stream, each the sequence of its tab-separated
\* fields; open: the fields written after the last newline
NoOs == [ called |-> FALSE, threshold |-> 0, lines |-> << >>, open |-> << >> ]

\* pc: "idle" before the call, "running" inside the parallel loop, "returned"
\* after it; worker[i]: the locals j, refID, cur_chr of thread i and its
\* private stream oss.at(i), a sequence of rows; ID_clean, ID_KE, ID_AS: the
\* addends of the three sums; diag: the record numbers of the format-error
\* messages; output: what the call appended to output; ret: its result
NoCall ==
  [ pc |-> "idle", n_threads |-> 0, directionality |-> 0, n_jobs |-> 0,
    worker |-> << >>, ID_clean |-> EmptyBag, ID_KE |-> EmptyBag,
    ID_AS |-> EmptyBag, diag |-> {}, output |-> << >>, ret |-> 0 ]

\* combines: the Combine calls the map received; valid: each of them had both
\* operands accumulating; late: the map ingested a fragment while finalized;
\* consumed: the map was the argument of a Combine; compacted: a direct
\* sort_and_collapse_temp call compacted fragments of the map
Usage0 == [ combines |-> 0, valid |-> TRUE, late |-> FALSE, consumed |-> FALSE,
            compacted |-> FALSE ]

Init ==
  /\ fm = [m \in Maps |-> ChrMapUpdate]
  /\ hist = EmptyHist
  /\ outcome = "ok"
  /\ ingested = [m \in Maps |-> EmptyBag]
  /\ usage = [m \in Maps |-> Usage0]
  /\ queried = << >>
  /\ stat = NoStat
  /\ BEDrecords = << >>
  /\ wo = NoCall
  /\ os = NoOs

\* a call that changes a map ends the caller's histogram (it is a local of
\* the region loop, built afresh for every region)
DropHist ==
  /\ hist' = EmptyHist /\ queried' = << >> /\ stat' = NoStat
  /\ UNCHANGED << BEDrecords, wo, os >>

ProcessBlocks(m, f) ==
  /\ fm["main"].frag_count + fm["child"].frag_count < MaxFrags
  /\ fm' = [fm EXCEPT ![m] = FragmentsMap_ProcessBlocks(fm[m], f)]
  /\ ingested' = [ingested EXCEPT ![m] = @ (+) SetToBag({f})]
  /\ usage' = [usage EXCEPT ![m].late = @ \/ fm[m].final_is_sorted]
  /\ outcome' = "ok"
  /\ DropHist

sort_and_collapse_temp(m) ==
  /\ fm' = [fm EXCEPT ![m] = FragmentsMap_sort_and_collapse_temp(fm[m])]
  /\ usage' = [usage EXCEPT ![m].compacted =
                  @ \/ (/\ fm[m].frag_count > 0
                        /\ \E j \in Channels, i \in Chrs :
                              Len(fm[m].temp_chrName_vec_new[j][i]) > 0)]
  /\ outcome' = "ok"
  /\ DropHist
  /\ UNCHANGED ingested

sort_and_collapse_final(m) ==
  /\ fm' = [fm EXCEPT ![m] = FragmentsMap_sort_and_collapse_final(fm[m])]
  /\ outcome' = "ok"
  /\ DropHist
  /\ UNCHANGED << ingested, usage >>

\* m.Combine(c), c being a map no Combine has consumed yet.  Combine has no
\* failing path: it returns normally in every mode
Combine(m, c) ==
  /\ m # c
  /\ ~usage[c].consumed
  /\ fm' = [fm EXCEPT ![m] = FragmentsMap_Combine(fm[m], fm[c]),
                      ![c] = FragmentsMap_sort_and_collapse_temp(fm[c])]
  /\ LET ok == ~fm[m].final_is_sorted /\ ~fm[c].final_is_sorted
     IN /\ usage' = [usage EXCEPT ![m].combines = @ + 1, ![m].valid = @ /\ ok,
                                  ![c].consumed = TRUE]
        /\ ingested' = [ingested EXCEPT
                          ![m] = IF ok THEN @ (+) ingested[c] ELSE @]
  /\ outcome' = "ok"
  /\ DropHist

\* one call of the loop of fillHist, on a completed map: the calls into one
\* histogram share dir and refID and walk the region's sub-blocks in order
updateCoverageHist(m, start, end, dir, refID) ==
  /\ fm[m].final_is_sorted
  /\ Len(queried) < MaxQueries
  /\ queried # << >> =>
       /\ queried[1].map = m /\ queried[1].dir = dir /\ queried[1].refID = refID
       /\ queried[Len(queried)].end <= start
  /\ hist' = FragmentsMap_updateCoverageHist(fm[m], hist, start, end, dir, refID)
  /\ queried' = Append(queried, [map |-> m, start |-> start, end |-> end,
                                 dir |-> dir, refID |-> refID])
  /\ outcome' = "ok"
  /\ stat' = NoStat
  /\ UNCHANGED << fm, ingested, usage, BEDrecords, wo, os >>

(***************************************************************************)
(* Spec: the life of one map: ingest, compaction and finalize in any order.*)
(***************************************************************************)
Next ==
  \/ \E f \in Fragments : ProcessBlocks("main", f)
  \/ sort_and_collapse_temp("main")
  \/ sort_and_collapse_final("main")

Spec == Init /\ [][Next]_vars

(***************************************************************************)
(* SpecMerge: two maps are filled, either may be finalized, and the child  *)
(* is combined into the main map.                                          *)
(***************************************************************************)
NextMerge ==
  \/ \E m \in Maps, f \in Fragments : ~fm[m].final_is_sorted /\ ProcessBlocks(m, f)
  \/ \E m \in Maps : sort_and_collapse_final(m)
  \/ Combine("main", "child")

SpecMerge == Init /\ [][NextMerge]_vars

(***************************************************************************)
(* SpecQuery: one map is filled and finalized, then queried.               *)
(***************************************************************************)
NextQuery ==
  \/ \E f \in Fragments : ~fm["main"].final_is_sorted /\ ProcessBlocks("main", f)
  \/ sort_and_collapse_final("main")
  \/ \E r \in Ranges, dir \in Channels, refID \in 0 .. NumChrs :
       updateCoverageHist("main", r[1], r[2], dir, refID)

SpecQuery == Init /\ [][NextQuery]_vars

(***************************************************************************)
(* SpecHist: the statistics, taken of any histogram.                       *)
(***************************************************************************)
InitHist ==
  /\ fm = [m \in Maps |-> ChrMapUpdate]
  /\ hist \in Hists
  /\ outcome = "ok"
  /\ ingested = [m \in Maps |-> EmptyBag]
  /\ usage = [m \in Maps |-> Usage0]
  /\ queried = << >>
  /\ stat = NoStat
  /\ BEDrecords = << >>
  /\ wo = NoCall
  /\ os = NoOs

meanFromHist ==
  /\ stat' = [fn |-> "meanFromHist", arg |-> 0,
              value |-> CoverageBlocks_meanFromHist(hist)]
  /\ outcome' = "ok"
  /\ UNCHANGED << fm, hist, ingested, usage, queried, BEDrecords, wo, os >>

coverageFromHist ==
  /\ stat' = [fn |-> "coverageFromHist", arg |-> 0,
              value |-> CoverageBlocks_coverageFromHist(hist)]
  /\ outcome' = "ok"
  /\ UNCHANGED << fm, hist, ingested, usage, queried, BEDrecords, wo, os >>

trimmedMeanFromHist(centerPercent) ==
  /\ stat' = [fn |-> "trimmedMeanFromHist", arg |-> centerPercent,
              value |-> CoverageBlocks_trimmedMeanFromHist(hist, centerPercent)]
  /\ outcome' = "ok"
  /\ UNCHANGED << fm, hist, ingested, usage, queried, BEDrecords, wo, os >>

\* a read past the last bin is undefined behaviour: the call may yield any
\* depth for it, and ends as "undefined"
percentileFromHist(percentile, next) ==
  /\ LET ret == CoverageBlocks_percentileFromHist(hist, percentile, next)
     IN /\ stat' = [fn |-> "percentileFromHist", arg |-> percentile,
                    value |-> ret.value]
        /\ outcome' = IF ret.past_end THEN "undefined" ELSE "ok"
  /\ UNCHANGED << fm, hist, ingested, usage, queried, BEDrecords, wo, os >>

NextHist ==
  \/ meanFromHist
  \/ coverageFromHist
  \/ \E percentile \in Percentiles, next \in {0, MaxDepth} :
        percentileFromHist(percentile, next)
  \/ \E centerPercent \in CenterPercents : trimmedMeanFromHist(centerPercent)

SpecHist == InitHist /\ [][NextHist]_vars

(***************************************************************************)
(* SpecSummary: CoverageBlocksIRFinder::WriteOutput over a catalog, on a   *)
(* completed map of uniform depth.                                         *)
(***************************************************************************)
InitSummary ==
  /\ fm = [m \in Maps |->
             IF m = "main"
             THEN FragmentsMap_sort_and_collapse_final(IngestAll(ChrMapUpdate, Pileup))
             ELSE ChrMapUpdate]
  /\ hist = EmptyHist
  /\ outcome = "ok"
  /\ ingested = [m \in Maps |-> IF m = "main" THEN Pileup ELSE EmptyBag]
  /\ usage = [m \in Maps |-> Usage0]
  /\ queried = << >>
  /\ stat = NoStat
  /\ BEDrecords \in Catalogs
  /\ wo = NoCall
  /\ os = NoOs

\* the call, up to the parallel loop
WriteOutput(n_threads, directionality) ==
  /\ wo.pc = "idle"
  /\ fm["main"].final_is_sorted
  /\ LET n_jobs == 1 + (Len(BEDrecords) \div n_threads)
     IN wo' = IF n_threads < 1
              THEN [NoCall EXCEPT !.pc = "returned", !.n_threads = n_threads,
                                  !.directionality = directionality, !.ret = -1]
              ELSE [NoCall EXCEPT !.pc = "running", !.n_threads = n_threads,
                                  !.directionality = directionality,
                                  !.n_jobs = n_jobs,
                                  !.worker = [i \in 0 .. (n_threads - 1) |->
                                                [ j |-> i * n_jobs, refID |-> 0,
                                                  cur_chr |-> "", oss |-> << >> ]]]
  /\ UNCHANGED << fm, hist, outcome, ingested, usage, queried, stat, BEDrecords, os >>

\* one iteration of the loop over j, by thread i
WriteOutputRegion(i, lk) ==
  /\ wo.pc = "running"
  /\ i \in DOMAIN wo.worker
  /\ wo.worker[i].j < (i + 1) * wo.n_jobs
  /\ wo.worker[i].j < Len(BEDrecords)
  /\ LET j == wo.worker[i].j
         r == Region(wo.worker[i], j, BEDrecords[j + 1], lk, fm["main"],
                     wo.directionality)
         add(sum, name) == IF r.sum = name
                           THEN sum (+) SetToBag({r.rows[1].IntronDepth})
                           ELSE sum
     IN wo' = [wo EXCEPT !.worker[i] = r.w,
                         !.ID_clean = add(@, "ID_clean"),
                         !.ID_KE = add(@, "ID_KE"),
                         !.ID_AS = add(@, "ID_AS"),
                         !.diag = IF r.error THEN @ \cup {j} ELSE @]
  /\ UNCHANGED << fm, hist, outcome, ingested, usage, queried, stat, BEDrecords, os >>

\* the streams of threads i .. n_threads - 1, the last one first
RECURSIVE OssReversed(_)
OssReversed(i) ==
  IF i >= wo.n_threads THEN << >> ELSE OssReversed(i + 1) \o wo.worker[i].oss

\* the streams of threads i .. n_threads - 1, one after the other
RECURSIVE OssFrom(_)
OssFrom(i) ==
  IF i >= wo.n_threads THEN << >> ELSE wo.worker[i].oss \o OssFrom(i + 1)

\* after the loop: the title, then the stream of every thread
WriteOutputReturn ==
  /\ wo.pc = "running"
  /\ \A i \in DOMAIN wo.worker :
        ~(wo.worker[i].j < (i + 1) * wo.n_jobs /\ wo.worker[i].j < Len(BEDrecords))
  /\ wo' = [wo EXCEPT !.pc = "returned", !.ret = 0,
                      !.output = << [ title |-> IF wo.directionality = 0
                                                THEN "Nondir_Chr" ELSE "Dir_Chr" ] >>
                                 \o OssFrom(0)]
  /\ UNCHANGED << fm, hist, outcome, ingested, usage, queried, stat, BEDrecords, os >>

NextSummary ==
  \/ \E n_threads \in 0 .. MaxThreads, directionality \in {0, 1, -1} :
        WriteOutput(n_threads, directionality)
  \/ \E i \in 0 .. (MaxThreads - 1), lk \in Lookups : WriteOutputRegion(i, lk)
  \/ WriteOutputReturn

SpecSummary == InitSummary /\ [][NextSummary]_vars

(***************************************************************************)
(* SpecWorkers: WriteOutput with several threads, which run their chunks   *)
(* of the catalog in any interleaving.                                     *)
(***************************************************************************)
InitWorkers ==
  /\ fm = [m \in Maps |->
             IF m = "main"
             THEN FragmentsMap_sort_and_collapse_final(IngestAll(ChrMapUpdate, Pileup))
             ELSE ChrMapUpdate]
  /\ hist = EmptyHist
  /\ outcome = "ok"
  /\ ingested = [m \in Maps |-> IF m = "main" THEN Pileup ELSE EmptyBag]
  /\ usage = [m \in Maps |-> Usage0]
  /\ queried = << >>
  /\ stat = NoStat
  /\ BEDrecords \in WorkerCatalogs
  /\ wo = NoCall
  /\ os = NoOs

NextWorkers ==
  \/ \E n_threads \in 1 .. MaxWorkers, directionality \in {0, 1} :
        WriteOutput(n_threads, directionality)
  \/ \E i \in 0 .. (MaxWorkers - 1), lk \in WorkerLookups : WriteOutputRegion(i, lk)
  \/ WriteOutputReturn

SpecWorkers == InitWorkers /\ [][NextWorkers]_vars

(***************************************************************************)
(* SpecExclusions: a map is filled, and FragmentsMap::WriteOutput writes   *)
(* its ranges at or below a threshold, finalizing the map when it has to.  *)
(***************************************************************************)
WriteExclusions(m, threshold) ==
  /\ fm' = [fm EXCEPT ![m] = FragmentsMap_sort_and_collapse_final(fm[m])]
  /\ LET st == FragmentsMap_WriteOutput(fm[m], threshold)
     IN os' = [ called |-> TRUE, threshold |-> threshold, lines |-> st.lines,
                open |-> st.open ]
  /\ outcome' = "ok"
  /\ hist' = EmptyHist /\ queried' = << >> /\ stat' = NoStat
  /\ UNCHANGED << ingested, usage, BEDrecords, wo >>

NextExclusions ==
  \/ \E f \in Fragments :
        ~fm["main"].final_is_sorted /\ ~os.called /\ ProcessBlocks("main", f)
  \/ sort_and_collapse_final("main")
  \/ \E threshold \in Thresholds : WriteExclusions("main", threshold)

SpecExclusions == Init /\ [][NextExclusions]_vars

(***************************************************************************)
(* What the claims compare the maps with.                                  *)
(***************************************************************************)
\* ... and is then finalized: its run-length sequences
NeverCompacted(B) ==
  FragmentsMap_sort_and_collapse_final(IngestAll(ChrMapUpdate, B)).chrName_vec_final

\* the blocks of fragment f that cover position x
BlocksOver(f, x) ==
  Cardinality({ k \in 1 .. Len(f.blocks) :
                  f.blocks[k][1] <= x /\ x < f.blocks[k][1] + f.blocks[k][2] })

\* the number of blocks of bag B that cover position x of chromosome i on
\* channel j (channel 2 takes the fragments of both directions)
RECURSIVE Covering(_, _, _, _)
Covering(B, j, i, x) ==
  IF BagToSet(B) = {} THEN 0
  ELSE LET f == CHOOSE g \in BagToSet(B) : TRUE
           n == IF f.chr_id = i /\ (j = f.direction \/ j = 2)
                THEN CopiesIn(f, B) * BlocksOver(f, x) ELSE 0
       IN n + Covering([g \in BagToSet(B) \ {f} |-> B[g]], j, i, x)

Strictly(v) == \A k \in 1 .. (Len(v) - 1) : v[k][1] < v[k + 1][1]
NoRepeat(v) == \A k \in 1 .. (Len(v) - 1) : v[k][2] # v[k + 1][2]

\* the positions the calls into hist have queried
QueriedPositions ==
  UNION { queried[k].start .. (queried[k].end - 1) : k \in 1 .. Len(queried) }

\* the observations of histogram h in ascending order: each depth, as often
\* as its bin counts
RECURSIVE SortedObs(_, _)
SortedObs(h, keys) ==
  IF keys = {} THEN << >>
  ELSE LET d == MinKey(keys)
       IN [k \in 1 .. h[d] |-> d] \o SortedObs(h, keys \ {d})

\* the sum of the observations of 0-based ranks lo .. hi - 1
RECURSIVE RankSum(_, _, _)
RankSum(obs, lo, hi) ==
  IF lo >= hi THEN 0 ELSE obs[lo + 1] + RankSum(obs, lo + 1, hi)

\* the observations the centre window of the last trimmedMeanFromHist keeps
TrimWidth == HistSum(hist) - 2 * TrimSkip(HistSum(hist), stat.arg)

(***************************************************************************)
(* C1.  Compaction is not observable: a finalized map holds, on every      *)
(* channel and chromosome, the run-length sequences of a map that ingested *)
(* the same fragments and was never compacted before its finalize,         *)
(* wherever sort_and_collapse_temp ran between the fragments.  (Spec)      *)
(***************************************************************************)
C1_CompactionUnobservable ==
  (fm["main"].final_is_sorted /\ ~usage["main"].late) =>
     fm["main"].chrName_vec_final = NeverCompacted(ingested["main"])

C1_Witness ==
  /\ fm["main"].final_is_sorted /\ ~usage["main"].late
  /\ usage["main"].compacted
  /\ fm["main"].frag_count = 2
  /\ Len(fm["main"].chrName_vec_final[2][0]) >= 3

(***************************************************************************)
(* C2.  After sort_and_collapse_final every run-length sequence has        *)
(* strictly increasing positions and no two adjacent entries of equal      *)
(* depth.  (Spec)                                                          *)
(***************************************************************************)
C2_FinalIsCanonical ==
  fm["main"].final_is_sorted =>
     \A j \in Channels, i \in Chrs :
        /\ Strictly(fm["main"].chrName_vec_final[j][i])
        /\ NoRepeat(fm["main"].chrName_vec_final[j][i])

\* a block that starts at 0 and a block that abuts it (net delta zero where
\* they meet), finalized
C2_Witness ==
  /\ fm["main"].final_is_sorted /\ ~usage["main"].late
  /\ \E f, g \in BagToSet(ingested["main"]) :
        /\ f.chr_id = g.chr_id
        /\ f.blocks[1][1] = 0
        /\ g.blocks[1][1] = f.blocks[1][1] + f.blocks[1][2]
        /\ Len(f.blocks) = 1 /\ Len(g.blocks) = 1
  /\ Len(fm["main"].chrName_vec_final[2][0]) = 2

(***************************************************************************)
(* C3.  Two accumulating maps with disjoint fragments, combined and then   *)
(* finalized, give the run-length sequences of one map that ingested the   *)
(* fragments of both.  (SpecMerge)                                         *)
(***************************************************************************)
C3_CombineThenFinalize ==
  (/\ fm["main"].final_is_sorted
   /\ usage["main"].combines > 0 /\ usage["main"].valid /\ ~usage["main"].late) =>
     fm["main"].chrName_vec_final = NeverCompacted(ingested["main"])

C3_Witness ==
  /\ fm["main"].final_is_sorted
  /\ usage["main"].combines > 0 /\ usage["main"].valid /\ ~usage["main"].late
  /\ fm["main"].frag_count = 1 /\ fm["child"].frag_count = 1
  /\ BagCardinality(ingested["main"]) = 2
  /\ \E k \in 1 .. Len(fm["main"].chrName_vec_final[2][0]) :
        fm["main"].chrName_vec_final[2][0][k][2] = 2

(***************************************************************************)
(* C4.  Combine with an operand that is already finalized ends in an       *)
(* explicit error and leaves the receiver's finalized data and mode alone. *)
(* (SpecMerge; the code concatenates or returns, and reports nothing)      *)
(***************************************************************************)
C4_CombineAfterFinalizeIsAnError ==
  [][ (/\ Combine("main", "child")
       /\ (fm["main"].final_is_sorted \/ fm["child"].final_is_sorted)) =>
        /\ outcome' = "error"
        /\ fm'["main"].chrName_vec_final = fm["main"].chrName_vec_final
        /\ fm'["main"].final_is_sorted = fm["main"].final_is_sorted ]_vars

(***************************************************************************)
(* C5.  One updateCoverageHist call over [start, end), start < end, on a   *)
(* chromosome of the finalized map, raises the sum of the histogram's      *)
(* counts by exactly end - start.  (SpecQuery)                             *)
(***************************************************************************)
C5_HistGrowsByRange ==
  [][ \A r \in Ranges, dir \in Channels, refID \in Chrs :
        updateCoverageHist("main", r[1], r[2], dir, refID) =>
           HistSum(hist') = HistSum(hist) + (r[2] - r[1]) ]_vars

\* two calls went into one histogram that holds covered and uncovered bases
C5_Witness ==
  /\ Len(queried) = 2 /\ queried[1].refID \in Chrs
  /\ Cardinality(DOMAIN hist) >= 2
  /\ HistSum(hist) = (queried[1].end - queried[1].start)
                     + (queried[2].end - queried[2].start)

(***************************************************************************)
(* C6.  A query for a refID outside the per-chromosome arrays counts the   *)
(* whole range as depth 0: hist[0] grows by end - start, without an error. *)
(* (SpecQuery; the code inserts the key 0 with count 0 and returns)        *)
(***************************************************************************)
C6_MissingChromosomeIsDepthZero ==
  [][ \A r \in Ranges, dir \in Channels :
        updateCoverageHist("main", r[1], r[2], dir, NumChrs) =>
           /\ HistCount(hist', 0) = HistCount(hist, 0) + (r[2] - r[1])
           /\ outcome' = "ok" ]_vars

(***************************************************************************)
(* C7.  The histogram filled from a finalized map maps each depth d to the *)
(* number of queried positions that exactly d ingested blocks cover on the *)
(* queried channel and chromosome, and holds no other key.  (SpecQuery)    *)
(***************************************************************************)
C7_HistCountsCoveringBlocks ==
  (queried # << >> /\ queried[1].refID \in Chrs) =>
     LET q == queried[1]
         truth(d) == Cardinality({ x \in QueriedPositions :
                        Covering(ingested[q.map], q.dir, q.refID, x) = d })
     IN /\ \A d \in 0 .. MaxFrags * 2 : HistCount(hist, d) = truth(d)
        /\ \A d \in DOMAIN hist : d \in 0 .. MaxFrags * 2 /\ hist[d] > 0

\* depth 1 on one part of the region and depth 2 on the next
C7_Witness ==
  /\ queried # << >> /\ queried[1].refID \in Chrs
  /\ 1 \in DOMAIN hist /\ 2 \in DOMAIN hist
  /\ queried[Len(queried)].end = MaxPos + 1

\* the rows the threads of the WriteOutput call have written
RowsWritten ==
  UNION { { wo.worker[i].oss[k] : k \in 1 .. Len(wo.worker[i].oss) } :
            i \in DOMAIN wo.worker }

(***************************************************************************)
(* C8.  As stated: every row whose JCexact is below 4 carries the warning  *)
(* "LowSplicing", whatever its other columns.  (SpecSummary)               *)
(***************************************************************************)
C8_LowSplicingAlways ==
  \A row \in RowsWritten : row.JCexact < 4 => row.Warnings = "LowSplicing"

(***************************************************************************)
(* C8, amended.  A row whose JCexact is below 4 carries "LowCover" when    *)
(* JCexact + IntronDepth < 10 holds and "LowSplicing" when it does not     *)
(* (an undefined IntronDepth included), whatever the junction counts at    *)
(* the two sides and the boundary-crossing counts.  (SpecSummary)          *)
(***************************************************************************)
C8_LowSplicingUnlessLowCover ==
  \A row \in RowsWritten :
     row.JCexact < 4 =>
        row.Warnings = IF RatLess(RatPlus(row.IntronDepth, row.JCexact), Rat(10, 1))
                       THEN "LowCover" ELSE "LowSplicing"

\* a row of JCexact 2 over depth 12 with uneven side counts: LowSplicing
C8_Witness ==
  \E row \in RowsWritten :
     /\ row.JCexact = 2 /\ row.Warnings = "LowSplicing"
     /\ RatEq(row.IntronDepth, Rat(PileupDepth, 1))
     /\ row.JCleft > row.JCright /\ row.SPleft < row.SPright

(***************************************************************************)
(* C9.  When the centre window of trimmedMeanFromHist is empty             *)
(* (size - 2 * skip = 0) the result is the NaN sentinel and never an       *)
(* ordinary number.  (SpecHist)                                            *)
(***************************************************************************)
C9_EmptyWindowIsSentinel ==
  (stat.fn = "trimmedMeanFromHist" /\ TrimWidth = 0) => IsNaN(stat.value)

(***************************************************************************)
(* C10.  Of a non-empty histogram whose centre window is not empty,        *)
(* trimmedMeanFromHist is the sum of the sorted observations of ranks      *)
(* skip .. size - skip - 1 over size - 2 * skip, and with centerPercent    *)
(* 100 it is meanFromHist.  (SpecHist)                                     *)
(***************************************************************************)
C10_TrimmedMeanIsWindowMean ==
  (stat.fn = "trimmedMeanFromHist" /\ HistSum(hist) > 0 /\ TrimWidth > 0) =>
     LET size == HistSum(hist)
         skip == TrimSkip(size, stat.arg)
         obs == SortedObs(hist, DOMAIN hist)
     IN /\ RatEq(stat.value, Rat(RankSum(obs, skip, size - skip), size - 2 * skip))
        /\ stat.arg = 100 => RatEq(stat.value, CoverageBlocks_meanFromHist(hist))

\* a window that starts inside one bin and ends inside a later one, with a
\* whole bin between them
C10_Witness ==
  /\ stat.fn = "trimmedMeanFromHist"
  /\ LET skip == TrimSkip(HistSum(hist), stat.arg)
     IN /\ skip > 0
        /\ Cardinality(DOMAIN hist) >= 3
        /\ hist[MinKey(DOMAIN hist)] > skip
        /\ hist[CHOOSE d \in DOMAIN hist : \A e \in DOMAIN hist : e <= d] > skip
  /\ stat.value.den > 1

\* the catalog indices of thread i: [i * n_jobs, (i + 1) * n_jobs) with
\* n_jobs = 1 + size / n_threads, inside the catalog
Chunk(i) ==
  LET n_jobs == 1 + (Len(BEDrecords) \div wo.n_threads)
  IN { j \in 0 .. (Len(BEDrecords) - 1) : i * n_jobs <= j /\ j < (i + 1) * n_jobs }

\* record j is of the mode of the call (nd for directionality 0, dir
\* otherwise)
OfTheMode(j) ==
  BEDrecords[j + 1].name.tag = IF wo.directionality = 0 THEN "nd" ELSE "dir"

\* record j is of the mode of the call and a numeric field of its name is
\* one stol throws on
Malformed(j) ==
  /\ OfTheMode(j)
  /\ \/ BEDrecords[j + 1].name.intronStart < 0
     \/ BEDrecords[j + 1].name.intronEnd < 0
     \/ BEDrecords[j + 1].name.exclBases < 0

\* the indices from j on of the records that get a row, in catalog order
RECURSIVE RowIndicesFrom(_)
RowIndicesFrom(j) ==
  IF j >= Len(BEDrecords) THEN << >>
  ELSE (IF OfTheMode(j) /\ ~Malformed(j) THEN << j >> ELSE << >>)
       \o RowIndicesFrom(j + 1)

(***************************************************************************)
(* C11.  With n_threads >= 1 every catalog index lies in the chunk of      *)
(* exactly one thread, a thread writes rows of its own chunk only, and the *)
(* output of the call is the title followed by the rows of the processed   *)
(* records in catalog order, however the threads interleave.               *)
(* (SpecWorkers)                                                           *)
(***************************************************************************)
C11_ChunksPartitionAndOutputInOrder ==
  (wo.pc # "idle" /\ wo.n_threads >= 1) =>
     /\ \A j \in 0 .. (Len(BEDrecords) - 1) :
           Cardinality({ i \in 0 .. (wo.n_threads - 1) : j \in Chunk(i) }) = 1
     /\ \A i \in DOMAIN wo.worker : \A k \in 1 .. Len(wo.worker[i].oss) :
           wo.worker[i].oss[k].j \in Chunk(i)
     /\ wo.pc = "returned" =>
           /\ Len(wo.output) = 1 + Len(RowIndicesFrom(0))
           /\ wo.output[1] = [ title |-> IF wo.directionality = 0
                                         THEN "Nondir_Chr" ELSE "Dir_Chr" ]
           /\ \A k \in 1 .. Len(RowIndicesFrom(0)) :
                 /\ wo.output[k + 1].j = RowIndicesFrom(0)[k]
                 /\ wo.output[k + 1].name = BEDrecords[RowIndicesFrom(0)[k] + 1].name

\* a returned call in which two threads each wrote a row
C11_Witness ==
  /\ wo.pc = "returned" /\ wo.ret = 0
  /\ \E i1, i2 \in DOMAIN wo.worker :
        i1 # i2 /\ wo.worker[i1].oss # << >> /\ wo.worker[i2].oss # << >>
  /\ Len(wo.output) < 1 + Len(BEDrecords)

(***************************************************************************)
(* C12.  A record of the mode of the call with a numeric name field that   *)
(* stol throws on is skipped once its thread is past it: no thread's       *)
(* stream and no output holds a row of it, its index is in the             *)
(* diagnostics, the sums hold one addend per written row of their class    *)
(* and none for it, the later records of the chunk that the thread is past *)
(* have their rows, and the call returns 0 with every chunk walked to its  *)
(* end.  (SpecWorkers)                                                     *)
(***************************************************************************)
C12_MalformedRecordIsSkipped ==
  (wo.pc # "idle" /\ wo.n_threads >= 1) =>
     /\ \A i \in DOMAIN wo.worker : \A j \in Chunk(i) :
           (j < wo.worker[i].j /\ Malformed(j)) =>
              /\ \A row \in RowsWritten : row.j # j
              /\ \A k \in 2 .. Len(wo.output) : wo.output[k].j # j
              /\ j \in wo.diag
              /\ \A j2 \in Chunk(i) :
                    (j < j2 /\ j2 < wo.worker[i].j /\ OfTheMode(j2) /\ ~Malformed(j2))
                       => \E k \in 1 .. Len(wo.worker[i].oss) : wo.worker[i].oss[k].j = j2
     /\ \A j \in wo.diag : Malformed(j)
     /\ BagCardinality(wo.ID_clean) =
           Cardinality({ row \in RowsWritten : row.name.s_clean = "clean" })
     /\ BagCardinality(wo.ID_KE) =
           Cardinality({ row \in RowsWritten : row.name.s_clean = "known-exon" })
     /\ BagCardinality(wo.ID_AS) =
           Cardinality({ row \in RowsWritten :
                           /\ row.name.s_clean \notin {"clean", "known-exon"}
                           /\ wo.directionality = 0 })
     /\ wo.pc = "returned" =>
           /\ wo.ret = 0
           /\ \A i \in DOMAIN wo.worker : \A j \in Chunk(i) : j < wo.worker[i].j

\* a returned call in which one thread skipped a malformed record and then
\* wrote the row of a later record of its chunk
C12_Witness ==
  /\ wo.pc = "returned" /\ wo.ret = 0
  /\ \E i \in DOMAIN wo.worker : \E j, j2 \in Chunk(i) :
        /\ j < j2 /\ Malformed(j) /\ j \in wo.diag
        /\ \E k \in 1 .. Len(wo.worker[i].oss) : wo.worker[i].oss[k].j = j2

\* the depth at position x of chromosome i on the unstranded channel of the
\* main map
UnstrandedDepth(i, x) == Covering(ingested["main"], 2, i, x)

\* the lines of the last FragmentsMap::WriteOutput that name chromosome c
RECURSIVE LinesOf(_, _)
LinesOf(lines, c) ==
  IF lines = << >> THEN << >>
  ELSE (IF Head(lines)[1] = c THEN << Head(lines) >> ELSE << >>)
       \o LinesOf(Tail(lines), c)

(***************************************************************************)
(* C13.  FragmentsMap::WriteOutput(threshold) writes whole lines           *)
(* (chromosome, start, end), chromosome after chromosome in the order of   *)
(* chrs; the lines of a chromosome are non-empty ranges in increasing      *)
(* order, disjoint and not adjacent, inside [0, chr_len], and a position   *)
(* of the chromosome lies in one of them exactly when its unstranded depth *)
(* is at most threshold.  (SpecExclusions)                                 *)
(***************************************************************************)
C13_ExclusionsAreMaximalRanges ==
  os.called =>
     /\ os.open = << >>
     /\ \A k \in 1 .. Len(os.lines) : Len(os.lines[k]) = 3
     /\ \A k \in 1 .. (Len(os.lines) - 1) :
           \E a, b \in 1 .. Len(chrs) :
              /\ a <= b
              /\ chrs[a].chr_name = os.lines[k][1]
              /\ chrs[b].chr_name = os.lines[k + 1][1]
     /\ \A i \in 1 .. Len(chrs) :
           LET rows == LinesOf(os.lines, chrs[i].chr_name)
           IN /\ \A k \in 1 .. Len(rows) :
                    0 <= rows[k][2] /\ rows[k][2] < rows[k][3]
                    /\ rows[k][3] <= chrs[i].chr_len
              /\ \A k \in 1 .. (Len(rows) - 1) : rows[k][3] < rows[k + 1][2]
              /\ \A x \in 0 .. (chrs[i].chr_len - 1) :
                    (UnstrandedDepth(chrs[i].refID, x) <= os.threshold)
                       <=> \E k \in 1 .. Len(rows) :
                              rows[k][2] <= x /\ x < rows[k][3]

\* the smallest and the largest depth of the histogram
MinDepth == MinKey(DOMAIN hist)
MaxDepthOf == CHOOSE d \in DOMAIN hist : \A e \in DOMAIN hist : e <= d

(***************************************************************************)
(* C14.  Of a histogram with observations, percentileFromHist of 0 and of  *)
(* 100 is a value between the smallest and the largest depth, and not NaN. *)
(* (SpecHist)                                                              *)
(***************************************************************************)
C14_ExtremePercentilesAreDefined ==
  (stat.fn = "percentileFromHist" /\ stat.arg \in {0, 100} /\ HistSum(hist) > 0) =>
     /\ ~IsNaN(stat.value)
     /\ ~RatLess(stat.value, Rat(MinDepth, 1))
     /\ ~RatLess(Rat(MaxDepthOf, 1), stat.value)

(***************************************************************************)
(* C15.  Whenever the map is finalized (final_is_sorted), its ingest       *)
(* buffers temp_chrName_vec_new and its accumulated-delta buffers          *)
(* chrName_vec_new are empty for every channel and chromosome.  (Spec)     *)
(***************************************************************************)
C15_FinalizedMapHasEmptyBuffers ==
  fm["main"].final_is_sorted =>
     \A j \in Channels, i \in Chrs :
        /\ fm["main"].temp_chrName_vec_new[j][i] = << >>
        /\ fm["main"].chrName_vec_new[j][i] = << >>

(***************************************************************************)
(* C16.  Of a histogram with observations and for every percentile,        *)
(* percentileFromHist never reads a bin past the last one.  (SpecHist)     *)
(***************************************************************************)
C16_PercentileStaysInsideTheMap ==
  (stat.fn = "percentileFromHist" /\ HistSum(hist) > 0) => outcome # "undefined"

====
